---- MODULE Spec2Model ----
(***************************************************************************)
(* amocrm-api: the bulk mutation reconciler of AmocrmClient                *)
(* (post_objects, _post_objects, _ajax_delete_objects in client.py) and    *)
(* the custom-fields data container (_CustomFieldsData in                  *)
(* custom_fields.py).                                                      *)
(*                                                                         *)
(* Entities are Python objects with an id, an updated_at and a meta dict   *)
(* of which the code only ever touches the key 'error'.  A post_objects    *)
(* call is modelled by its positions: the grouping of its arguments        *)
(* (post_objects), then one iteration of its loop over the entity classes  *)
(* per step (post_objects_model), each iteration sending its requests and  *)
(* reconciling the answers.  The server is the environment: every answer   *)
(* is drawn from bounded sets.                                             *)
(*                                                                         *)
(* Time is counted in half seconds, so that a datetime may carry a         *)
(* sub-second part: Trunc is datetime.replace(microsecond=0).              *)
(*                                                                         *)
(* Specifications:                                                         *)
(*   Spec        one post_objects call on any lists of two objects         *)
(*   SpecUpdate  one post_objects call updating loaded companies that      *)
(*               have any updated_at                                       *)
(*   SpecRetry   obj.save() and obj.delete(), one call after the other     *)
(*   SpecFields  the containers of two classes: data_cls, get, set, in     *)
(*   SpecNormalize  the normalization of every form of _embedded.errors    *)
(*   SpecPostFields  post_custom_fields calls, one after the other         *)
(*   SpecResolve  the resolution of a declared custom field against the    *)
(*               metadata of the account                                   *)
(*   SpecBinder  the lazy binding of the custom fields of two classes:     *)
(*               dumps and loads, update_account_info, bind_model          *)
(*   SpecCodec   _serialize then _deserialize of a custom field's value    *)
(*   SpecAttribute  assignments to the attribute of a declared custom      *)
(*               field and dumps of the entity, before and after the bind  *)
(*   SpecClients  clients constructed and models bound to them             *)
(***************************************************************************)
EXTENDS Integers, Sequences, FiniteSets, TLC

\* ---------------------------------------------------------------- bounds
\* Largest id the server hands out or echoes.
MaxId == 2
\* Largest time, in half seconds.
MaxTime == 4
\* Largest number of items in one response.
MaxItems == 2
\* Largest length of an add-error list in a response.
MaxErrList == 2
\* Largest time the server echoes as updated_at, in half seconds.
MaxEcho == 2
\* Number of post_objects calls in a behaviour of SpecRetry.
MaxCalls == 2
\* Largest id of a custom field of the account.
MaxFieldId == 2

\* ------------------------------------------------------------ value sets
\* Python's None, for an id and for a datetime (ids and times are positive).
None == 0

\* The entity objects the caller holds.
Ent == {"A", "B"}
Ids == 1..MaxId
Times == 2..MaxTime

\* A datetime left with its sub-second part.
Trunc_nothing(t) == t

\* datetime.replace(microsecond=0)
Trunc(t) == t - (t % 2)

\* What the server can echo as updated_at: a timestamp, so in whole seconds.
EchoTimes == {t \in Times : Trunc(t) = t /\ t <= MaxEcho}

\* The entity classes bound to the client that the model uses.
Kinds == {"contact", "company"}

\* AmocrmClient.__model_names_ajax_delete
model_names_ajax_delete == {"contact", "lead"}

\* meta without the key 'error'
NoError == "<no error>"
\* An error message of the server.
Msgs == {"err"}
\* 'Maybe not added (possible errors %s)' % set(errors['add'])
MaybeNotAdded == "Maybe not added"

\* The empty dict, and a dict as a function on its set of keys.
EmptyMap == <<>>

VARIABLES
    cls,                \* obj.__class__ of every entity
    id,                 \* obj.id
    updated_at,         \* obj.updated_at
    meta,               \* obj.meta.get('error')
    pc,                 \* position in post_objects: "idle" or "loop"
    raise_on_errors,    \* the argument of the call in progress
    add_or_update_map,  \* class -> (add, update) of the call in progress
    delete_map,         \* class -> delete of the call in progress
    models,             \* the classes the loop of post_objects has still to visit
    requests,           \* the requests sent by the call, in order
    resp,               \* the response of the last _post_objects, as it leaves it
    raised,             \* the exception that ended the last call, "none" if it returned
    failed,             \* the objects a PostError carries, by action
    warned,             \* the entities of the last step's 'updated_at mismatch' warnings
    deleted,            \* history: the entities some request deleted successfully
    before,             \* history: id, updated_at and meta as the call in progress found them
    ncalls,             \* number of post_objects calls made
    custom_fields,      \* class -> the custom_fields its data class was built from
    _id_name_map,       \* _CustomFieldsData._id_name_map (empty: not set yet)
    _name_ids_map,      \* _CustomFieldsData._name_ids_map (empty: not set yet)
    container,          \* class -> the data of the container of an entity of the class
    result,             \* the last operation on a container and how it ended
    wire,               \* an answer's _embedded.errors and the number of adds it answers
    normalized,         \* resp.errors as lines 208-233 of client.py leave it
    metadata_id,        \* field.metadata.get('id') of every custom field object
    fields_resp,        \* the last post_custom_fields call, its answer and how it ended
    descriptor,         \* the metadata and field_type of a declared custom field
    custom_fields_meta, \* id -> metadata record, as _bind_custom_fields receives it
    resolved,           \* what _bind_from_custom_fields_meta gave for descriptor
    account_info,       \* client.__dict__['account_info']: cached or not, its custom fields
    declared,           \* class -> the custom fields its class body declares, in order
    schema_fields,      \* class -> the declared fields still in schema.fields, by position
    properties,         \* class -> the properties set on the entity class: position -> field id
    bound,              \* class -> self.custom_fields of its _CustomFields field (None: not done)
    binder_op,          \* the last operation on the client or a schema and how it ended
    codec_in,           \* a custom field (its type, its enums) and a value of its domain
    codec_out,          \* the wire value _serialize gave for it and what _deserialize made of that
    field_id,           \* the id the declared field of the class is bound to (None: class not bound)
    instance_dict,      \* obj.__dict__.get(field.name) of every entity
    obj_custom_fields,  \* obj.custom_fields of every entity: id -> value (None and {} alike)
    assigned,           \* history: the value last assigned to the attribute of every entity
    dumped,             \* the last dump and the custom_fields value it serialized, reset by an assignment
    constructed,        \* the AmocrmClient objects constructed so far
    _client,            \* model._client of every model class object ("": not set)
    client_models,      \* client.models of every client: model name -> class object ("": no such key)
    client_op           \* the last operation on a client

reconciler_vars == <<cls, id, updated_at, meta, pc, raise_on_errors, add_or_update_map,
                     delete_map, models, requests, resp, raised, failed, warned, deleted,
                     before, ncalls>>

fields_vars == <<custom_fields, _id_name_map, _name_ids_map, container, result>>

normalize_vars == <<wire, normalized>>

post_fields_vars == <<metadata_id, fields_resp>>

resolve_vars == <<descriptor, custom_fields_meta, resolved>>

binder_vars == <<account_info, declared, schema_fields, properties, bound, binder_op>>

codec_vars == <<codec_in, codec_out>>

attribute_vars == <<field_id, instance_dict, obj_custom_fields, assigned, dumped>>

clients_vars == <<constructed, _client, client_models, client_op>>

\* What the actions of one part of the program leave alone: the other parts.
beside_reconciler == <<fields_vars, normalize_vars, post_fields_vars, resolve_vars, binder_vars,
    codec_vars,
    attribute_vars,
    clients_vars>>

beside_fields == <<reconciler_vars, normalize_vars, post_fields_vars, resolve_vars, binder_vars,
    codec_vars,
    attribute_vars,
    clients_vars>>

beside_normalize == <<reconciler_vars, fields_vars, post_fields_vars, resolve_vars, binder_vars,
    codec_vars,
    attribute_vars,
    clients_vars>>

beside_post_fields == <<reconciler_vars, fields_vars, normalize_vars, resolve_vars, binder_vars,
    codec_vars,
    attribute_vars,
    clients_vars>>

beside_resolve == <<reconciler_vars, fields_vars, normalize_vars, post_fields_vars, binder_vars,
    codec_vars,
    attribute_vars,
    clients_vars>>

beside_binder == <<reconciler_vars, fields_vars, normalize_vars, post_fields_vars, resolve_vars,
    codec_vars,
    attribute_vars,
    clients_vars>>

beside_codec == <<reconciler_vars, fields_vars, normalize_vars, post_fields_vars, resolve_vars,
                  binder_vars,
    attribute_vars,
    clients_vars>>

beside_attribute == <<reconciler_vars, fields_vars, normalize_vars, post_fields_vars, resolve_vars,
          binder_vars, codec_vars,
    clients_vars>>

beside_clients == <<reconciler_vars, fields_vars, normalize_vars, post_fields_vars, resolve_vars,
          binder_vars, codec_vars,
          attribute_vars>>

vars == <<reconciler_vars, fields_vars, normalize_vars, post_fields_vars, resolve_vars,
          binder_vars, codec_vars,
          attribute_vars,
          clients_vars>>

\* ------------------------------------------------------------- helpers
Min(a, b) == IF a < b THEN a ELSE b

\* sorted(set)
RECURSIVE sorted(_)
sorted(S) ==
    IF S = {} THEN <<>>
    ELSE LET m == CHOOSE x \in S : \A y \in S : x <= y
         IN <<m>> \o sorted(S \ {m})

\* The objects a dict holds: dict.values()
values(map) == {map[k] : k \in DOMAIN map}

\* The objects of a list.
elements(seq) == {seq[i] : i \in DOMAIN seq}

\* Sequences without repetition over S, of every length.
RECURSIVE Lists(_)
Lists(S) ==
    {<<>>} \cup UNION {{<<x>> \o l : l \in Lists(S \ {x})} : x \in S}

\* dict(enumerate(add)): request index (from 0) -> object
enumerate(add) == [i \in 0..(Len(add) - 1) |-> add[i + 1]]

\* sum(len(errors[k]) for k in errors)
count_errors(errors) ==
    Cardinality(DOMAIN errors.add) + Cardinality(DOMAIN errors.update)
    + Cardinality(DOMAIN errors.delete)


\* ------------------------------------------------- the server's answers
\* An item of _embedded.items: its id and its updated_at (None: no such key).
ItemVals == [id : Ids, updated_at : {None} \cup EchoTimes]

\* The lists of at most n items.
ItemSeqs(n) == UNION {[1..m -> ItemVals] : m \in 0..n}

\* The dicts of messages over a subset of the keys.
ErrMaps(keys) == UNION {[d -> Msgs] : d \in SUBSET keys}

\* errors['add'] on the wire: no such key, a dict keyed by request index, or a
\* list of messages.
AddErr(form, d, l) == [form |-> form, d |-> d, l |-> l]

AddErrAbsent == AddErr("absent", EmptyMap, <<>>)

AddErrDicts(nadd) == {AddErr("dict", d, <<>>) : d \in ErrMaps(0..(nadd - 1)) \ {EmptyMap}}

AddErrLists == {AddErr("list", EmptyMap, l) : l \in UNION {[1..n -> Msgs] : n \in 0..MaxErrList}}

\* _embedded.errors on the wire: absent, a list whose first element holds the
\* add errors, or a dict with some of the keys 'add', '0', 'update', 'delete'.
RawErrors(shape, keys, add, zero, update, delete) ==
    [shape |-> shape, keys |-> keys, add |-> add, zero |-> zero,
     update |-> update, delete |-> delete]

RawAbsent == RawErrors("absent", {}, AddErrAbsent, AddErrAbsent, EmptyMap, EmptyMap)

\* The answers to a batch of nadd adds, the updates ukeys and the deletes dkeys:
\* nothing, or a dict that leaves out the keys it has nothing for, its add
\* errors keyed by request index or listed.
ErrorsOnWire(nadd, ukeys, dkeys) ==
    {IF a = AddErrAbsent /\ u = EmptyMap /\ d = EmptyMap
     THEN RawAbsent
     ELSE RawErrors("dict",
                    (IF a = AddErrAbsent THEN {} ELSE {"add"})
                    \cup (IF u = EmptyMap THEN {} ELSE {"update"})
                    \cup (IF d = EmptyMap THEN {} ELSE {"delete"}),
                    a, AddErrAbsent, u, d) :
        a \in {AddErrAbsent} \cup AddErrDicts(nadd) \cup (IF nadd > 0 THEN AddErrLists ELSE {}),
        u \in ErrMaps(ukeys), d \in ErrMaps(dkeys)}

\* Python truth of errors[0]: an empty dict or list, or None, is false.
truthy(a) == (a.form = "dict" /\ a.d # EmptyMap) \/ (a.form = "list" /\ a.l # <<>>)

\* A normalization that pairs the messages of a list with the request indexes
\* one by one, whatever the number of adds.
normalize_errors_list_by_position(raw, nadd) ==
    LET add1 == IF raw.shape = "absent" THEN AddErrAbsent
                ELSE IF raw.shape = "list"
                     THEN (IF truthy(raw.add) THEN raw.add ELSE AddErr("dict", EmptyMap, <<>>))
                ELSE IF "0" \in raw.keys THEN raw.zero
                ELSE IF "add" \in raw.keys THEN raw.add
                ELSE AddErrAbsent
        add2 == IF add1.form = "absent" THEN AddErr("dict", EmptyMap, <<>>) ELSE add1
        upd  == IF raw.shape = "dict" /\ "update" \in raw.keys THEN raw.update ELSE EmptyMap
        del  == IF raw.shape = "dict" /\ "delete" \in raw.keys THEN raw.delete ELSE EmptyMap
        add3 == IF add2.form = "list"
                THEN [i \in 0..(Len(add2.l) - 1) |-> add2.l[i + 1]]
                ELSE add2.d
    IN [add |-> add3, update |-> upd, delete |-> del]

\* client.py 208-231: the error map with its three keys, the add errors as one
\* dict from request index to message.
normalize_errors(raw, nadd) ==
    LET \* 208-216
        add1 == IF raw.shape = "absent" THEN AddErrAbsent
                ELSE IF raw.shape = "list"
                     THEN (IF truthy(raw.add) THEN raw.add ELSE AddErr("dict", EmptyMap, <<>>))
                ELSE IF "0" \in raw.keys THEN raw.zero
                ELSE IF "add" \in raw.keys THEN raw.add
                ELSE AddErrAbsent
        add2 == IF add1.form = "absent" THEN AddErr("dict", EmptyMap, <<>>) ELSE add1
        upd  == IF raw.shape = "dict" /\ "update" \in raw.keys THEN raw.update ELSE EmptyMap
        del  == IF raw.shape = "dict" /\ "delete" \in raw.keys THEN raw.delete ELSE EmptyMap
        \* 224-231
        add3 == IF add2.form = "list"
                THEN IF Len(add2.l) = nadd
                     THEN [i \in 0..(nadd - 1) |-> add2.l[i + 1]]
                     ELSE [i \in 0..(nadd - 1) |-> MaybeNotAdded]
                ELSE add2.d
    IN [add |-> add3, update |-> upd, delete |-> del]

\* errors['add'], errors['0'] or errors[0] on the wire: None or no such key,
\* a dict keyed by request index (empty or not), or a list of messages.
AddErrOnWire(nadd) ==
    {AddErrAbsent, AddErr("dict", EmptyMap, <<>>)} \cup AddErrDicts(nadd) \cup AddErrLists

\* Every form of _embedded.errors that lines 208-216 tell apart, for an answer
\* to nadd adds: absent, a list, or a dict with any of the keys 'add', '0',
\* 'update' and 'delete' (a key it lacks has no value).
AllErrorsOnWire(nadd) ==
    {RawAbsent}
    \cup {RawErrors("list", {}, a, AddErrAbsent, EmptyMap, EmptyMap) : a \in AddErrOnWire(nadd)}
    \cup {RawErrors("dict",
                    (IF a = AddErrAbsent THEN {} ELSE {"add"})
                    \cup (IF z = AddErrAbsent THEN {} ELSE {"0"}) \cup uk \cup dk,
                    a, z, IF uk = {} THEN EmptyMap ELSE u, IF dk = {} THEN EmptyMap ELSE d) :
              a \in AddErrOnWire(nadd), z \in AddErrOnWire(nadd),
              u \in ErrMaps(Ids), d \in ErrMaps(Ids),
              uk \in {{}, {"update"}}, dk \in {{}, {"delete"}}}

\* No answer has been normalized yet.
NotNormalized ==
    [done |-> FALSE, errors |-> [add |-> EmptyMap, update |-> EmptyMap, delete |-> EmptyMap]]

\* client.py 208-233: the normalization of the errors of the answer in wire
normalize ==
    /\ ~normalized.done
    /\ normalized' = [done |-> TRUE, errors |-> normalize_errors(wire.raw, wire.nadd)]
    /\ UNCHANGED wire
    /\ UNCHANGED beside_normalize

\* ------------------------------------------------------- _post_objects
\* client.py 242-259: the loop over the returned items.  st holds the ids, the
\* updated_at, the warned entities and the exception raised so far.
RECURSIVE attribute_items(_, _, _, _, _)
attribute_items(data, added_idxs, add, update_map, st) ==
    IF data = <<>> \/ st.exc # "none" THEN st
    ELSE LET item == Head(data) IN
         IF added_idxs # <<>>
         THEN IF item.updated_at # None
              THEN [st EXCEPT !.exc = "AssertionError"]
              ELSE attribute_items(Tail(data), Tail(added_idxs), add, update_map,
                       [st EXCEPT !.id[add[Head(added_idxs) + 1]] = item.id])
         ELSE IF item.updated_at # None
         THEN IF item.id \notin DOMAIN update_map
              THEN [st EXCEPT !.exc = "KeyError"]
              ELSE LET updated == update_map[item.id]
                       local == st.updated_at[updated]
                   IN attribute_items(Tail(data), added_idxs, add, update_map,
                          [st EXCEPT !.updated_at[updated] = item.updated_at,
                                     !.warned = IF local # None /\ Trunc(local) # item.updated_at
                                                THEN @ \cup {updated} ELSE @])
         ELSE attribute_items(Tail(data), added_idxs, add, update_map, st)

\* The request indexes of the adds that have no error, the last one first.
added_idxs_descending(add, errors) ==
    LET s == sorted((0..(Len(add) - 1)) \ DOMAIN errors.add)
    IN [k \in 1..Len(s) |-> s[Len(s) + 1 - k]]

\* The request indexes of all the adds, with or without an error.
added_idxs_errors_ignored(add, errors) == sorted(0..(Len(add) - 1))

\* client.py 242: the request indexes of the adds that have no error
added_idxs_of(add, errors) == sorted((0..(Len(add) - 1)) \ DOMAIN errors.add)

\* Recording the errors of one action without ever dropping an 'error'.
record_errors_keeping(m, obj_map, errs) ==
    [e \in Ent |->
        IF \E k \in DOMAIN obj_map : obj_map[k] = e /\ k \in DOMAIN errs
        THEN errs[CHOOSE k \in DOMAIN obj_map : obj_map[k] = e /\ k \in DOMAIN errs]
        ELSE m[e]]

\* client.py 265-271 for one action: every object of obj_map gets the message
\* its key has in errs, or loses its 'error'.
record_errors(m, obj_map, errs) ==
    [e \in Ent |->
        IF \E k \in DOMAIN obj_map : obj_map[k] = e
        THEN LET k == CHOOSE k \in DOMAIN obj_map : obj_map[k] = e
             IN IF k \in DOMAIN errs THEN errs[k] ELSE NoError
        ELSE m[e]]

\* client.py 261-271: add, then update, then delete
record_all_errors(m, add, update_map, del_map, errors) ==
    record_errors(
        record_errors(
            record_errors(m, enumerate(add), errors.add),
            update_map, errors.update),
        del_map, errors.delete)

\* A _post_objects that takes any number of items and errors for its batch.
count_matched_whatever(data, errors, add, update_map, del_map) == TRUE

\* client.py 236-240: the count of items and errors against the batch
count_matched(data, errors, add, update_map, del_map) ==
    Len(data) + count_errors(errors)
        = Len(add) + Cardinality(DOMAIN update_map) + Cardinality(DOMAIN del_map)

\* _post_objects with the count of 236-240 checked after the reconciliation
\* instead of before it.
_post_objects_checked_late(meta0, add, update_map, del_map, raw, data) ==
    LET reconciled(errors) ==
            LET done(st) ==
                    [id |-> st.id, updated_at |-> st.updated_at, warned |-> st.warned,
                     meta |-> IF st.exc = "none"
                              THEN record_all_errors(meta0, add, update_map, del_map, errors)
                              ELSE meta0,
                     errors |-> errors, data |-> data,
                     exc |-> IF st.exc = "none"
                                /\ ~count_matched(data, errors, add, update_map, del_map)
                             THEN "ClientError" ELSE st.exc]
            IN done(attribute_items(data, added_idxs_of(add, errors), add, update_map,
                       [id |-> id, updated_at |-> updated_at, warned |-> {}, exc |-> "none"]))
    IN reconciled(normalize_errors(raw, Len(add)))

\* client.py 200-272: _post_objects on a batch and the server's answer to it.
\* Gives the entities' fields as it leaves them, the response it returns
\* (errors, data) and the exception it raises ("none": it returns).
_post_objects(meta0, add, update_map, del_map, raw, data) ==
    LET reconciled(errors) ==
            IF ~count_matched(data, errors, add, update_map, del_map)
            THEN [id |-> id, updated_at |-> updated_at, meta |-> meta0, warned |-> {},
                  errors |-> errors, data |-> data, exc |-> "ClientError"]
            ELSE LET done(st) ==
                         [id |-> st.id, updated_at |-> st.updated_at, warned |-> st.warned,
                          meta |-> IF st.exc = "none"
                                   THEN record_all_errors(meta0, add, update_map, del_map, errors)
                                   ELSE meta0,
                          errors |-> errors, data |-> data, exc |-> st.exc]
                 IN done(attribute_items(data, added_idxs_of(add, errors), add, update_map,
                            [id |-> id, updated_at |-> updated_at, warned |-> {}, exc |-> "none"]))
    IN reconciled(normalize_errors(raw, Len(add)))

\* client.py 184-197: _ajax_delete_objects, the status of the answer given:
\* every object of the delete map gets the message, or loses its 'error'.
_ajax_delete_objects(m, del_map, status, message) ==
    [e \in Ent |->
        IF e \in values(del_map)
        THEN (IF status # "success" THEN message ELSE NoError)
        ELSE m[e]]


\* -------------------------------------------------------- post_objects
\* defaultdict(lambda: ([], {})) and defaultdict(dict), over the classes
NoBatch == [add |-> <<>>, update |-> EmptyMap]

EmptyAddOrUpdateMap == [k \in Kinds |-> NoBatch]

EmptyDeleteMap == [k \in Kinds |-> EmptyMap]

NoResp == [called |-> FALSE, model |-> "", errors |-> [add |-> EmptyMap, update |-> EmptyMap, delete |-> EmptyMap],
           data |-> <<>>]

NoFailed == [add |-> {}, update |-> {}, delete |-> {}]

\* client.py 282-285: the stamp of the call, None when updated_at is false
stamp_of(now) == IF now # None THEN Trunc(now) ELSE None

\* A stamp that overwrites whatever updated_at the object has.
stamped_always(local, stamp) == IF stamp # None THEN stamp ELSE local

\* client.py 291-297: the updated_at of an object that has an id, after the stamp
stamped(local, stamp) ==
    IF stamp # None
    THEN (IF local = None \/ local <= stamp THEN stamp ELSE local)
    ELSE local

\* The loop over add_or_update of a client that refuses the objects it has
\* deleted.
RECURSIVE group_add_or_update_refusing_deleted(_, _, _)
group_add_or_update_refusing_deleted(objs, stamp, st) ==
    IF objs = <<>> \/ st.exc # "none" THEN st
    ELSE LET obj == Head(objs)
             c == cls[obj]
         IN IF obj \in deleted
            THEN [st EXCEPT !.exc = "AssertionError"]
            ELSE IF id[obj] # None
            THEN group_add_or_update_refusing_deleted(Tail(objs), stamp,
                     [st EXCEPT !.updated_at[obj] = stamped(@, stamp),
                                !.map[c].update = (id[obj] :> obj) @@ @])
            ELSE group_add_or_update_refusing_deleted(Tail(objs), stamp,
                     [st EXCEPT !.map[c].add = Append(@, obj)])

\* The loop over add_or_update of a client that stamps every object, with or
\* without an id.
RECURSIVE group_add_or_update_stamping_adds(_, _, _)
group_add_or_update_stamping_adds(objs, stamp, st) ==
    IF objs = <<>> \/ st.exc # "none" THEN st
    ELSE LET obj == Head(objs)
             c == cls[obj]
             st1 == [st EXCEPT !.updated_at[obj] = stamped(@, stamp)]
         IN IF id[obj] # None
            THEN IF id[obj] \in DOMAIN st.map[c].update
                 THEN [st1 EXCEPT !.exc = "AssertionError"]
                 ELSE group_add_or_update_stamping_adds(Tail(objs), stamp,
                          [st1 EXCEPT !.map[c].update = (id[obj] :> obj) @@ @])
            ELSE group_add_or_update_stamping_adds(Tail(objs), stamp,
                     [st1 EXCEPT !.map[c].add = Append(@, obj)])

\* client.py 288-302: the loop over add_or_update.  st holds the updated_at of
\* the entities, the map built so far and the exception raised.
RECURSIVE group_add_or_update(_, _, _)
group_add_or_update(objs, stamp, st) ==
    IF objs = <<>> \/ st.exc # "none" THEN st
    ELSE LET obj == Head(objs)
             c == cls[obj]
         IN IF id[obj] # None
            THEN LET st1 == [st EXCEPT !.updated_at[obj] = stamped(@, stamp)]
                 IN IF id[obj] \in DOMAIN st.map[c].update
                    THEN [st1 EXCEPT !.exc = "AssertionError"]
                    ELSE group_add_or_update(Tail(objs), stamp,
                             [st1 EXCEPT !.map[c].update = (id[obj] :> obj) @@ @])
            ELSE group_add_or_update(Tail(objs), stamp,
                     [st EXCEPT !.map[c].add = Append(@, obj)])

\* client.py 304-307: the loop over delete
RECURSIVE group_delete(_, _)
group_delete(objs, st) ==
    IF objs = <<>> \/ st.exc # "none" THEN st
    ELSE LET obj == Head(objs)
         IN IF id[obj] = None
            THEN [st EXCEPT !.exc = "AssertionError"]
            ELSE group_delete(Tail(objs),
                     [st EXCEPT !.map[cls[obj]] = (id[obj] :> obj) @@ @])

\* client.py 310: the classes of the call
models_of(add_or_update, delete) ==
    {cls[o] : o \in elements(add_or_update)} \cup {cls[o] : o \in elements(delete)}

\* The objects of one class in the call: those its requests carry.
batch_objects(aou, del) == elements(aou.add) \cup values(aou.update) \cup values(del)

\* client.py 274-307: post_objects up to its loop over the classes.
post_objects(add_or_update, delete, now, roe) ==
    /\ pc = "idle"
    /\ LET g == group_add_or_update(add_or_update, stamp_of(now),
                    [updated_at |-> updated_at, map |-> EmptyAddOrUpdateMap, exc |-> "none"])
           d == IF g.exc = "none"
                THEN group_delete(delete, [map |-> EmptyDeleteMap, exc |-> "none"])
                ELSE [map |-> EmptyDeleteMap, exc |-> g.exc]
           ms == models_of(add_or_update, delete)
       IN /\ updated_at' = g.updated_at
          /\ add_or_update_map' = g.map
          /\ delete_map' = d.map
          /\ raised' = d.exc
          /\ models' = IF d.exc = "none" THEN ms ELSE {}
          /\ pc' = IF d.exc = "none" /\ ms # {} THEN "loop" ELSE "idle"
    /\ raise_on_errors' = roe
    /\ requests' = <<>>
    /\ resp' = NoResp
    /\ failed' = NoFailed
    /\ warned' = {}
    /\ before' = [id |-> id, updated_at |-> updated_at, meta |-> meta]
    /\ ncalls' = ncalls + 1
    /\ UNCHANGED <<cls, id, meta, deleted>>
    /\ UNCHANGED beside_reconciler

\* A request as the transport sees it: its endpoint, the class in its path and
\* the objects it carries.
Request(endpoint, model, objs) == [endpoint |-> endpoint, model |-> model, objs |-> objs]

\* client.py 324-329: the objects PostError carries, by action
failed_objects(m, add, update_map, del_map) ==
    [add |-> {o \in elements(add) : m[o] # NoError},
     update |-> {o \in values(update_map) : m[o] # NoError},
     delete |-> {o \in values(del_map) : m[o] # NoError}]

\* No class has an ajax endpoint for its deletes.
ajax_delete_never(model) == FALSE

\* client.py 314: the deletes of the class go through the ajax endpoint
ajax_delete(model) == delete_map[model] # EmptyMap /\ model \in model_names_ajax_delete

\* client.py 319: the deletes left for the standard request
delete_left(model) == IF ajax_delete(model) THEN EmptyMap ELSE delete_map[model]

\* The answers the server can give to the requests of one class: the status of
\* the ajax request (only "success" matters when there is none), the errors and
\* the items of the standard request, sized by its batch.
answers_ajax(model) == IF ajax_delete(model) THEN {"success", "error"} ELSE {"success"}

answers_errors(model) ==
    ErrorsOnWire(Len(add_or_update_map[model].add), DOMAIN add_or_update_map[model].update,
                 DOMAIN delete_left(model))

answers_items(model) ==
    ItemSeqs(Min(MaxItems, Len(add_or_update_map[model].add)
                           + Cardinality(DOMAIN add_or_update_map[model].update)
                           + Cardinality(DOMAIN delete_left(model))))

\* client.py 310-330: one iteration of the loop over the classes.  For a class
\* of __model_names_ajax_delete that has deletes, the ajax request goes first
\* (status is its answer) and the standard request follows only if the class
\* has adds or updates; raw and data are the answer to the standard request.
post_objects_model(model) ==
    /\ pc = "loop"
    /\ model \in models
    /\ \E status \in answers_ajax(model), raw \in answers_errors(model),
          data \in answers_items(model) :
       LET add == add_or_update_map[model].add
           update == add_or_update_map[model].update
           delete0 == delete_map[model]
           \* 314
           ajax == ajax_delete(model)
           m1 == IF ajax THEN _ajax_delete_objects(meta, delete0, status, "err") ELSE meta
           \* 316-317: PostError(resp, message, delete=...) lacks the argument model
           type_error == ajax /\ raise_on_errors /\ status # "success"
           \* 319
           delete == delete_left(model)
           \* 320-321
           continue == ajax /\ ~type_error /\ Len(add) = 0 /\ update = EmptyMap
           posted == ~type_error /\ ~continue
       IN /\ (type_error \/ continue) => raw = RawAbsent /\ data = <<>>
          /\ \E r \in {_post_objects(m1, add, update, delete, raw, data)} :
             LET \* 324
                 exc == IF type_error THEN "TypeError"
                        ELSE IF continue THEN "none"
                        ELSE IF r.exc # "none" THEN r.exc
                        ELSE IF raise_on_errors /\ count_errors(r.errors) > 0 THEN "PostError"
                        ELSE "none"
                 sent == (IF ajax THEN <<Request("ajax", model, values(delete0))>> ELSE <<>>)
                         \o (IF posted
                             THEN <<Request("post", model,
                                            batch_objects(add_or_update_map[model], delete))>>
                             ELSE <<>>)
             IN /\ id' = IF posted THEN r.id ELSE id
                /\ updated_at' = IF posted THEN r.updated_at ELSE updated_at
                /\ meta' = IF posted THEN r.meta ELSE m1
                /\ warned' = IF posted THEN r.warned ELSE {}
                /\ resp' = IF posted
                           THEN [called |-> TRUE, model |-> model, errors |-> r.errors,
                                 data |-> r.data]
                           ELSE [NoResp EXCEPT !.model = model]
                /\ requests' = requests \o sent
                /\ raised' = exc
                /\ failed' = IF exc = "PostError"
                             THEN failed_objects(r.meta, add, update, delete)
                             ELSE NoFailed
                /\ deleted' = deleted
                      \cup (IF ajax /\ status = "success" THEN values(delete0) ELSE {})
                      \cup (IF posted /\ r.exc = "none"
                            THEN {delete[k] : k \in DOMAIN delete \ DOMAIN r.errors.delete}
                            ELSE {})
                /\ models' = IF exc = "none" THEN models \ {model} ELSE {}
                /\ pc' = IF exc = "none" /\ models \ {model} # {} THEN "loop" ELSE "idle"
    /\ UNCHANGED <<cls, raise_on_errors, add_or_update_map, delete_map, before, ncalls>>
    /\ UNCHANGED beside_reconciler

\* ---------------------------------------------------- _CustomFieldsData
\* The custom fields of the account: their ids and their names.
FieldIds == 1..MaxFieldId

FieldNames == {"Position", "Phone"}

\* What a container stores.
Values == {"v"}

\* The keys a caller may use on a container: an id (an int) or a name (a str).
IntKey(i) == [str |-> FALSE, id |-> i, name |-> ""]

StrKey(n) == [str |-> TRUE, id |-> None, name |-> n]

Keys == {IntKey(i) : i \in FieldIds} \cup {StrKey(n) : n \in FieldNames}

\* self.custom_fields of a _CustomFields field: id -> the name of the field's
\* custom_field_meta; the sets of fields an account may have.
FieldSets == UNION {[d -> FieldNames] : d \in SUBSET FieldIds}

\* The custom_fields of a class whose data class is not built yet, and of one
\* whose data class was built from fields.
Unset == [built |-> FALSE, fields |-> EmptyMap]

Built(fields) == [built |-> TRUE, fields |-> fields]

\* custom_fields.py 60-61: id -> name
id_name_map(fields) == fields

\* custom_fields.py 62-64: name -> the ids that have it (a defaultdict of
\* lists, of which the code reads the length and the first element)
name_ids_map(fields) ==
    LET names == {fields[i] : i \in DOMAIN fields}
    IN [n \in names |-> {i \in DOMAIN fields : fields[i] = n}]

UnknownFieldName == "ValueError: Unknown field name"

MultipleFields == "ValueError: Field name binded to multiple fields"

\* custom_fields.py 30-39: _get_key, the key it returns or the exception
_get_key(key) ==
    IF key.str
    THEN IF key.name \notin DOMAIN _name_ids_map
         THEN [exc |-> UnknownFieldName, key |-> None]
         ELSE IF Cardinality(_name_ids_map[key.name]) > 1
         THEN [exc |-> MultipleFields, key |-> None]
         ELSE [exc |-> "none", key |-> CHOOSE i \in _name_ids_map[key.name] : TRUE]
    ELSE [exc |-> "none", key |-> key.id]

NoValue == "<no value>"

NoResult == [op |-> "none", model |-> "", key |-> IntKey(None), exc |-> "none",
             value |-> NoValue]

Result(op, model, key, exc, value) ==
    [op |-> op, model |-> model, key |-> key, exc |-> exc, value |-> value]

\* custom_fields.py 106-108 and 58-66: the data class of a class's custom
\* fields is built once, by create_data_cls: deepcopy(cls) of a class is the
\* class itself, so the two maps are set on _CustomFieldsData.
data_cls(model, fields) ==
    /\ ~custom_fields[model].built
    /\ custom_fields' = [custom_fields EXCEPT ![model] = Built(fields)]
    /\ _id_name_map' = id_name_map(fields)
    /\ _name_ids_map' = name_ids_map(fields)
    /\ result' = NoResult
    /\ UNCHANGED container
    /\ UNCHANGED beside_fields

\* custom_fields.py 41-42: container[key] on the container of an entity of
\* the class
getitem(model, key) ==
    /\ custom_fields[model].built
    /\ LET k == _get_key(key)
       IN result' = IF k.exc # "none" THEN Result("get", model, key, k.exc, NoValue)
                    ELSE IF k.key \notin DOMAIN container[model]
                    THEN Result("get", model, key, "KeyError", NoValue)
                    ELSE Result("get", model, key, "none", container[model][k.key])
    /\ UNCHANGED <<custom_fields, _id_name_map, _name_ids_map, container>>
    /\ UNCHANGED beside_fields

\* custom_fields.py 44-45: key in container
contains(model, key) ==
    /\ custom_fields[model].built
    /\ LET k == _get_key(key)
       IN result' = IF k.exc # "none" THEN Result("contains", model, key, k.exc, NoValue)
                    ELSE Result("contains", model, key, "none",
                                IF k.key \in DOMAIN container[model] THEN "True" ELSE "False")
    /\ UNCHANGED <<custom_fields, _id_name_map, _name_ids_map, container>>
    /\ UNCHANGED beside_fields

\* custom_fields.py 47-48: container[key] = item
setitem(model, key, item) ==
    /\ custom_fields[model].built
    /\ LET k == _get_key(key)
       IN /\ result' = Result("set", model, key, k.exc, NoValue)
          /\ container' = IF k.exc # "none" THEN container
                     ELSE [container EXCEPT ![model] =
                              [i \in DOMAIN @ \cup {k.key} |-> IF i = k.key THEN item ELSE @[i]]]
    /\ UNCHANGED <<custom_fields, _id_name_map, _name_ids_map>>
    /\ UNCHANGED beside_fields

\* -------------------------------------------------- post_custom_fields
\* The custom field objects the caller holds (TextField(name=...), ...).
Flds == {"f1", "f2"}

\* _embedded.items of the answer: the ids of the fields the account created.
FieldItems == UNION {[1..n -> Ids] : n \in 0..MaxItems}

NoFieldsResp == [called |-> FALSE, add |-> <<>>, delete |-> <<>>, status |-> "unsent",
                 data |-> <<>>, exc |-> "none"]

\* The ids handed out the other way round: the last item to the first field.
assigned_ids_reversed(add, data) ==
    [f \in Flds |->
        IF \E i \in 1..Len(add) : add[i] = f
        THEN data[Len(add) + 1 - (CHOOSE i \in 1..Len(add) : add[i] = f)]
        ELSE metadata_id[f]]

\* client.py 466-467: add[i].metadata['id'] = item['id'], for every item
assigned_ids(add, data) ==
    [f \in Flds |->
        IF \E i \in 1..Len(add) : add[i] = f
        THEN data[CHOOSE i \in 1..Len(add) : add[i] = f]
        ELSE metadata_id[f]]

\* client.py 433-469: post_custom_fields.  The payload reads metadata['id'] of
\* every field to delete (KeyError when it has none); the server answers with
\* an HTTP error or with the items it created.
post_custom_fields(add, delete) ==
    \E status \in {"ok", "HTTPError"}, data \in FieldItems :
        LET key_error == \E i \in 1..Len(delete) : metadata_id[delete[i]] = None
            exc == IF key_error THEN "KeyError"
                   ELSE IF status = "HTTPError" THEN "PostError"
                   ELSE IF Len(data) # Len(add) THEN "ClientError"
                   ELSE "none"
        IN /\ (key_error \/ status = "HTTPError") => data = <<>>
           /\ key_error => status = "ok"
           /\ metadata_id' = IF exc = "none" THEN assigned_ids(add, data) ELSE metadata_id
           /\ fields_resp' = [called |-> TRUE, add |-> add, delete |-> delete,
                              status |-> IF key_error THEN "unsent" ELSE status,
                              data |-> data, exc |-> exc]
           /\ UNCHANGED beside_post_fields

\* ------------------------------------------------- _CustomFieldMixin
\* constants.py FIELD_TYPE, two of its members
FieldTypes == {"TEXT", "NUMERIC"}

\* The codes the account gives its fields.
Codes == {"POSITION", "PHONE"}

\* A record of the account's custom fields metadata, without its id (the
\* metadata is kept as id -> record, m.id being the key).
MetaRecs == [name : FieldNames, code : Codes, field_type : FieldTypes]

\* custom_fields.py 139-144: the metadata of a kind, id -> record
MetaMaps == UNION {[d -> MetaRecs] : d \in SUBSET FieldIds}

\* A declared custom field: field.metadata (the keyword arguments id, code
\* and name, None or "" when not given) and the field_type of its class.
Descriptors == [id : FieldIds \cup {None}, code : Codes \cup {""}, name : FieldNames \cup {""},
                field_type : FieldTypes]

BindByFailed == "RuntimeError: Custom field bind by failed"

MustBeBinded == "RuntimeError: Custom field must be binded by id, code or name"

TypeMismatch == "RuntimeError: Custom field bind failed: expected type"

\* custom_fields.py 159-160: the first of 'id', 'code', 'name' that the
\* field's metadata has
bind_attr(d) ==
    IF d.id # None THEN "id"
    ELSE IF d.code # "" THEN "code"
    ELSE IF d.name # "" THEN "name"
    ELSE "none"

\* The records whose key and type both agree with the field's.
matched_of_type(d, data) ==
    {i \in DOMAIN data :
        /\ data[i].field_type = d.field_type
        /\ \/ bind_attr(d) = "id" /\ i = d.id
           \/ bind_attr(d) = "code" /\ data[i].code = d.code
           \/ bind_attr(d) = "name" /\ data[i].name = d.name}

\* utils.py 9 with the lambda of custom_fields.py 162: the records m that
\* have m[attr] == self.metadata[attr], by their ids
matched(d, data) ==
    {i \in DOMAIN data :
        \/ bind_attr(d) = "id" /\ i = d.id
        \/ bind_attr(d) = "code" /\ data[i].code = d.code
        \/ bind_attr(d) = "name" /\ data[i].name = d.name}

\* What a resolution gives: the exception, the number of records get_one
\* matched, the id of the record found.
Resolution(exc, n, i) == [exc |-> exc, matched |-> n, id |-> i]

\* custom_fields.py 158-166 and utils.py 8-12: exactly one record must match
_get_from_custom_fields_meta(d, data) ==
    IF bind_attr(d) = "none" THEN Resolution(MustBeBinded, 0, None)
    ELSE LET m == matched(d, data)
         IN IF Cardinality(m) # 1
            THEN Resolution(BindByFailed, Cardinality(m), None)
            ELSE Resolution("none", 1, CHOOSE i \in m : TRUE)

\* custom_fields.py 168-174: the record found must have the field's type
_bind_from_custom_fields_meta(d, data) ==
    LET m == _get_from_custom_fields_meta(d, data)
    IN IF m.exc # "none" THEN m
       ELSE IF d.field_type # data[m.id].field_type
       THEN Resolution(TypeMismatch, 1, None)
       ELSE m

NotResolved == [done |-> FALSE, exc |-> "none", matched |-> 0, id |-> None]

\* field._bind_from_custom_fields_meta(custom_fields_meta), custom_fields.py 94
resolve ==
    /\ ~resolved.done
    /\ \E r \in {_bind_from_custom_fields_meta(descriptor, custom_fields_meta)} :
          resolved' = [done |-> TRUE, exc |-> r.exc, matched |-> r.matched, id |-> r.id]
    /\ UNCHANGED <<descriptor, custom_fields_meta>>
    /\ UNCHANGED beside_resolve

\* ------------------------------------------- _CustomFields, the binding
\* The custom fields an account may have for its entities, id -> record:
\* text fields of one code and of any names, numbered from 1.
AccountFields ==
    UNION {[1..n -> [name : FieldNames, code : {"POSITION"}, field_type : {"TEXT"}]] :
              n \in 0..MaxFieldId}

\* What the body of an entity class may declare: text fields bound by name
\* (my_field = TextField(name=...)), one for each of any names, in any order.
DeclaredFields ==
    {[i \in 1..Len(names) |->
         [id |-> None, code |-> "", name |-> names[i], field_type |-> "TEXT"]] :
        names \in Lists(FieldNames)}

\* self.custom_fields of a _CustomFields field: None, or id -> the
\* custom_field_meta of the field bound to the id.
Unbound == [done |-> FALSE, fields |-> EmptyMap]

Hooks == {"pre_dump", "pre_load"}

BinderOp(op, kind, exc) == [op |-> op, kind |-> kind, exc |-> exc]

\* custom_fields.py 91-98: the loop over the declared fields that
\* schema.fields still has, in order.  st holds custom_fields, the positions
\* left in schema.fields, the properties set and the exception raised.
RECURSIVE bind_declared(_, _, _, _)
bind_declared(positions, decl, data, st) ==
    IF positions = <<>> \/ st.exc # "none" THEN st
    ELSE LET i == Head(positions)
             r == _bind_from_custom_fields_meta(decl[i], data)
         IN IF r.exc # "none" THEN [st EXCEPT !.exc = r.exc]
            ELSE IF r.id \in DOMAIN st.custom_fields
            THEN [st EXCEPT !.exc = "AssertionError"]
            ELSE bind_declared(Tail(positions), decl, data,
                     [st EXCEPT !.custom_fields = (r.id :> data[r.id]) @@ @,
                                !.schema_fields = @ \ {i},
                                !.properties = (i :> r.id) @@ @])

\* custom_fields.py 87-104: _bind_custom_fields with pop=True.  Gives
\* self.custom_fields as set on line 104 (empty when an exception came first),
\* what is left in schema.fields, the properties of the entity class and the
\* exception raised.
_bind_custom_fields(data, decl, left, props) ==
    LET st == bind_declared(sorted(left), decl, data,
                  [custom_fields |-> EmptyMap, schema_fields |-> left, properties |-> props,
                   exc |-> "none"])
    IN IF st.exc # "none"
       THEN [st EXCEPT !.custom_fields = EmptyMap]
       ELSE [st EXCEPT !.custom_fields =
                [i \in DOMAIN data \cup DOMAIN st.custom_fields |->
                    IF i \in DOMAIN st.custom_fields THEN st.custom_fields[i] ELSE data[i]]]

\* A hook that binds at every dump and load.
binds_always(kind) == TRUE

\* custom_fields.py 139: self.fields['custom_fields'].custom_fields is None
unbound(kind) == ~bound[kind].done

\* custom_fields.py 137-148: the pre_dump and pre_load hook of the schema of
\* an entity class.  Reading client.account_info fetches it unless it is
\* cached (client.py 122-124), the answer being any set of fields.
_maybe_bind_custom_fields(kind, hook) ==
    /\ \E fetched \in AccountFields :
          LET binds == unbound(kind)
              info == IF account_info.cached THEN account_info.fields ELSE fetched
          IN /\ (account_info.cached \/ ~binds) => fetched = EmptyMap
             /\ account_info' = IF binds THEN [cached |-> TRUE, fields |-> info]
                                ELSE account_info
             /\ \E r \in {_bind_custom_fields(info, declared[kind], schema_fields[kind],
                                               properties[kind])} :
                   /\ bound' = IF binds /\ r.exc = "none"
                               THEN [bound EXCEPT ![kind] = [done |-> TRUE, fields |-> r.custom_fields]]
                               ELSE bound
                   /\ schema_fields' = IF binds
                                       THEN [schema_fields EXCEPT ![kind] = r.schema_fields]
                                       ELSE schema_fields
                   /\ properties' = IF binds
                                    THEN [properties EXCEPT ![kind] = r.properties]
                                    ELSE properties
                   /\ binder_op' = BinderOp(hook, kind, IF binds THEN r.exc ELSE "none")
    /\ UNCHANGED declared
    /\ UNCHANGED beside_binder

\* client.py 116-120: update_account_info drops the cached properties and
\* stores the account info it fetches, the answer being any set of fields.
update_account_info ==
    /\ \E fetched \in AccountFields : account_info' = [cached |-> TRUE, fields |-> fetched]
    /\ binder_op' = BinderOp("update_account_info", "", "none")
    /\ UNCHANGED <<declared, schema_fields, properties, bound>>
    /\ UNCHANGED beside_binder

\* client.py 66-75: bind_model of a model name: deepcopy of a class is the
\* class itself, which is given the client and registered again.
bind_model(kind) ==
    /\ binder_op' = BinderOp("bind_model", kind, "none")
    /\ UNCHANGED <<account_info, declared, schema_fields, properties, bound>>
    /\ UNCHANGED beside_binder

\* ------------------------------------------ the custom field classes
\* The classes of custom fields that have a _serialize and a _deserialize of
\* their own kind (URL, TEXTAREA and STREETADDRESS are TEXT, RADIOBUTTON is
\* SELECT, BIRTHDAY is DATE).
SingleTypes == {"TEXT", "NUMERIC", "CHECKBOX", "DATE", "SELECT"}

EnumTypes == {"SELECT", "MULTISELECT", "MULTITEXT"}

CodecTypes == SingleTypes \cup {"MULTISELECT", "MULTITEXT", "legal_entity"}

\* custom_field_meta['enums'] of a field: enum id -> enum name, the names
\* being unique (custom_fields.py 193-200).
EnumIds == {"3001", "3002"}

EnumNames == {"WORK", "HOME"}

EnumMaps ==
    {e \in UNION {[d -> EnumNames] : d \in (SUBSET EnumIds) \ {{}}} :
        \A i, j \in DOMAIN e : e[i] = e[j] => i = j}

NoEnums == EmptyMap

\* custom_fields.py 193: self.enums, the set of the enum names
enums(e) == {e[i] : i \in DOMAIN e}

Texts == {"x", "y"}

Dates == [year : {1999}, month : {1, 12}, day : {1, 31}]

\* A Python value: the name of its type and what it holds.  A dict and a
\* MultiDict hold their items, key and value, in order; a list its elements.
Py(type, v) == [type |-> type, v |-> v]

PyNone == Py("NoneType", "None")

\* The dicts over keys of ks with values of Texts, as lists of items in the
\* order of their insertion.
Dicts(ks) ==
    UNION {{[i \in 1..Len(l) |-> <<l[i], t[i]>>] : t \in [1..Len(l) -> Texts]} :
              l \in Lists(ks)}

\* The values a field of a type accepts (those _serialize does not refuse),
\* None left out.
Domain(field_type, e) ==
    CASE field_type = "TEXT" -> {Py("str", t) : t \in Texts}
      [] field_type = "NUMERIC" -> {Py("int", n) : n \in {0, 7}}
      [] field_type = "CHECKBOX" -> {Py("bool", b) : b \in BOOLEAN}
      [] field_type = "DATE" -> {Py("date", d) : d \in Dates}
      [] field_type = "SELECT" -> {Py("str", n) : n \in enums(e)}
      [] field_type = "MULTISELECT" -> {Py("list", l) : l \in Lists(enums(e))}
      [] field_type = "MULTITEXT" -> {Py("dict", d) : d \in Dicts(enums(e))}
      [] field_type = "legal_entity" ->
            {Py("list", l) : l \in UNION {[1..n -> [name : Texts]] : n \in 0..1}}

\* The _serialize of the marshmallow class a single-valued field is made of:
\* String, Integer and Boolean give the value as it is, Date its ISO form.
base_serialize(field_type, val) ==
    IF field_type = "DATE"
    THEN [iso |-> <<val.v.year, val.v.month, val.v.day>>]
    ELSE val.v

\* The _deserialize of the marshmallow class, back from the wire.
base_deserialize(field_type, x) ==
    CASE field_type \in {"TEXT", "SELECT"} -> Py("str", x)
      [] field_type = "NUMERIC" -> Py("int", x)
      [] field_type = "CHECKBOX" -> Py("bool", x)
      [] field_type = "DATE" -> Py("date", [year |-> x.iso[1], month |-> x.iso[2], day |-> x.iso[3]])

Encoded(exc, w) == [exc |-> exc, wire |-> w]

Decoded(exc, val) == [exc |-> exc, value |-> val]

\* _serialize of the field classes: custom_fields.py 186-188 (_SingleMixin),
\* 224-226 (SelectField), 237-245 (MultiSelectField), 268-276
\* (MultiTextField), 319-325 (LegalEntityField), for a value of the domain.
_serialize(field_type, e, val) ==
    CASE field_type \in SingleTypes ->
            Encoded("none", <<[value |-> base_serialize(field_type, val)]>>)
      [] field_type = "MULTISELECT" ->
            Encoded("none", [i \in 1..Len(val.v) |-> [value |-> val.v[i]]])
      [] field_type = "MULTITEXT" ->
            Encoded("none", [i \in 1..Len(val.v) |->
                                [enum |-> val.v[i][1], value |-> val.v[i][2]]])
      [] field_type = "legal_entity" ->
            Encoded("none", [i \in 1..Len(val.v) |-> [value |-> val.v[i]]])

\* custom_fields.py 265: self.custom_field_meta['enums'][v['enum']], the
\* enums being keyed by enum id
multitext_enum(e, key) ==
    IF key \in DOMAIN e THEN [exc |-> "none", name |-> e[key]]
    ELSE [exc |-> "KeyError", name |-> ""]

\* _deserialize of the field classes: custom_fields.py 182-184 (_SingleMixin),
\* 231-235 (MultiSelectField), 263-267 (MultiTextField), 315-317
\* (LegalEntityField).
_deserialize(field_type, e, w) ==
    CASE field_type \in SingleTypes ->
            IF Len(w) # 1 THEN Decoded("AssertionError", PyNone)
            ELSE Decoded("none", base_deserialize(field_type, w[1].value))
      [] field_type = "MULTISELECT" ->
            IF \E i \in 1..Len(w) : w[i].value \notin enums(e)
            THEN Decoded("ValidationError", PyNone)
            ELSE Decoded("none", Py("list", [i \in 1..Len(w) |-> w[i].value]))
      [] field_type = "MULTITEXT" ->
            IF \E i \in 1..Len(w) : multitext_enum(e, w[i].enum).exc # "none"
            THEN Decoded("KeyError", PyNone)
            ELSE Decoded("none", Py("MultiDict",
                     [i \in 1..Len(w) |-> <<multitext_enum(e, w[i].enum).name, w[i].value>>]))
      [] field_type = "legal_entity" ->
            IF w = <<>> THEN Decoded("none", PyNone)
            ELSE Decoded("none", Py("list", [i \in 1..Len(w) |-> w[i].value]))

NotCoded == [done |-> FALSE, wire |-> <<>>, exc |-> "none", value |-> PyNone]

\* custom_fields.py 116-132 and 110-114 for one field: the value is
\* serialized and the wire value deserialized.
round_trip ==
    /\ ~codec_out.done
    /\ \E w \in {_serialize(codec_in.field_type, codec_in.enums, codec_in.value)} :
       \E d \in {_deserialize(codec_in.field_type, codec_in.enums, w.wire)} :
          codec_out' = [done |-> TRUE, wire |-> w.wire, exc |-> d.exc, value |-> d.value]
    /\ UNCHANGED codec_in
    /\ UNCHANGED beside_codec

\* ------------------------------- the attribute of a declared custom field
\* The values a caller assigns to the attribute.
AttrValues == {"a", "b"}

NotDumped == [done |-> FALSE, obj |-> "", value |-> EmptyMap]

\* obj.my_field = data.  custom_fields.py 79-82 once the class is bound (the
\* property of lines 84-85 is a data descriptor: its setter stores the value
\* in obj.custom_fields, made if it was None); before that the class has no
\* property and the assignment stores the value in obj.__dict__.
setattr_my_field(obj, data) ==
    /\ IF field_id = None
       THEN /\ instance_dict' = [instance_dict EXCEPT ![obj] = data]
            /\ UNCHANGED obj_custom_fields
       ELSE /\ obj_custom_fields' = [obj_custom_fields EXCEPT ![obj] = (field_id :> data) @@ @]
            /\ UNCHANGED instance_dict
    /\ assigned' = [assigned EXCEPT ![obj] = data]
    /\ dumped' = NotDumped
    /\ UNCHANGED field_id
    /\ UNCHANGED beside_attribute

\* custom_fields.py 117-127: the value _CustomFields._serialize goes on with.
\* A container that is not empty is updated in place, None or an empty one is
\* replaced by a new dict; the value that obj.__dict__ has under the name of
\* the field is put under the field's id.
merged(value, in_dict, fid) ==
    IF in_dict # NoValue THEN (fid :> in_dict) @@ value ELSE value

\* obj.dump(): the pre_dump hook binds the class if it is not bound, the
\* account giving the field any id (custom_fields.py 138-148, 87-104), then
\* _CustomFields._serialize serializes obj.custom_fields (116-132).
dump(obj) ==
    /\ \E fid \in FieldIds :
          /\ field_id # None => fid = field_id
          /\ field_id' = fid
          /\ LET value == merged(obj_custom_fields[obj], instance_dict[obj], fid)
             IN /\ obj_custom_fields' =
                      IF obj_custom_fields[obj] # EmptyMap
                      THEN [obj_custom_fields EXCEPT ![obj] = value]
                      ELSE obj_custom_fields
                /\ dumped' = [done |-> TRUE, obj |-> obj, value |-> value]
    /\ UNCHANGED <<instance_dict, assigned>>
    /\ UNCHANGED beside_attribute

\* ------------------------------------------------ the models of a client
\* The clients a program makes.
Clients == {"c1", "c2"}

\* The class objects: those of models.py that client.py 68-69 finds for the
\* model names (AmocrmClient.contact is models.SystemContact, line 42) and
\* classes of the caller (class MyContact(Contact), class MyCompany(Company)).
Classes == {"SystemContact", "Company", "MyContact", "MyCompany"}

NoClient == ""

\* client.py 68-69 on a client that has no attribute of the name yet:
\* getattr(self, model_name, getattr(models, model_name.capitalize()))
default_model(model_name) == IF model_name = "contact" THEN "SystemContact" ELSE "Company"

\* model.model_name of a class object
model_name_of(model) == IF model \in {"Company", "MyCompany"} THEN "company" ELSE "contact"

ClientOp(op, client, model) == [op |-> op, client |-> client, model |-> model]

\* client.py 65-75: bind_model on the class object that lines 66-71 come to.
\* deepcopy of a class object is the class object itself, so for a model name
\* the class is the one found, not a copy of it.  st holds _client and models.
bind(st, client, model) ==
    [_client |-> [st._client EXCEPT ![model] = client],
     models |-> [st.models EXCEPT ![client][model_name_of(model)] = model]]

\* client.py 53-63: AmocrmClient(...), which binds every model name in turn
\* (the loop body is the same for every name; two of the names are modelled).
__init__(client) ==
    /\ client \notin constructed
    /\ constructed' = constructed \cup {client}
    /\ LET st0 == [_client |-> _client, models |-> client_models]
           st1 == bind(st0, client, default_model("contact"))
           st2 == bind(st1, client, default_model("company"))
       IN /\ _client' = st2._client
          /\ client_models' = st2.models
    /\ client_op' = ClientOp("__init__", client, "")
    /\ UNCHANGED beside_clients

\* client.py 65-75: client.bind_model(model) for a model name (the class is
\* the attribute of that name the client has) or for a class object.
bind_model_of(client, model, by_name) ==
    /\ client \in constructed
    /\ LET found == IF by_name THEN client_models[client][model] ELSE model
           st == bind([_client |-> _client, models |-> client_models], client, found)
       IN /\ _client' = st._client
          /\ client_models' = st.models
          /\ client_op' = ClientOp("bind_model", client, found)
    /\ UNCHANGED constructed
    /\ UNCHANGED beside_clients

\* ------------------------------------------------------- specification
\* The objects the caller holds before the first call, built by their class
\* (client.contact(...)): without an id, or with the id of an object of the
\* account and then with or without an updated_at; meta is empty.  Up to the
\* naming of the ids, A has the first id if it has one.
Constructed ==
    /\ cls \in [Ent -> Kinds]
    /\ id \in [Ent -> Ids \cup {None}]
    /\ id["A"] \in {None} \cup {i \in Ids : \A j \in Ids : i <= j}
    /\ updated_at \in [Ent -> {None} \cup Times]
    /\ \A e \in Ent : id[e] = None => updated_at[e] = None
    /\ meta = [e \in Ent |-> NoError]

NoCall ==
    /\ pc = "idle"
    /\ raise_on_errors = FALSE
    /\ add_or_update_map = EmptyAddOrUpdateMap
    /\ delete_map = EmptyDeleteMap
    /\ models = {}
    /\ requests = <<>>
    /\ resp = NoResp
    /\ raised = "none"
    /\ failed = NoFailed
    /\ warned = {}
    /\ deleted = {}
    /\ before = [id |-> id, updated_at |-> updated_at, meta |-> meta]
    /\ ncalls = 0

\* No class has built its data class, every container is empty.
NoFields ==
    /\ custom_fields = [k \in Kinds |-> Unset]
    /\ _id_name_map = EmptyMap
    /\ _name_ids_map = EmptyMap
    /\ container = [k \in Kinds |-> EmptyMap]
    /\ result = NoResult

\* No answer is being normalized apart from a call.
NoWire ==
    /\ wire = [raw |-> RawAbsent, nadd |-> 0]
    /\ normalized = NotNormalized

\* No field is being resolved apart from a binding.
NoResolve ==
    /\ descriptor = [id |-> None, code |-> "", name |-> "", field_type |-> "TEXT"]
    /\ custom_fields_meta = EmptyMap
    /\ resolved = NotResolved

\* client.py 53-64 and the class bodies: the client is constructed, its
\* classes declare no custom field, nothing is bound or fetched.
NoBinding ==
    /\ account_info = [cached |-> FALSE, fields |-> EmptyMap]
    /\ declared = [k \in Kinds |-> <<>>]
    /\ schema_fields = [k \in Kinds |-> {}]
    /\ properties = [k \in Kinds |-> EmptyMap]
    /\ bound = [k \in Kinds |-> Unbound]
    /\ binder_op = BinderOp("__init__", "", "none")

\* No value is being serialized.
NoCodec ==
    /\ codec_in = [field_type |-> "TEXT", enums |-> NoEnums, value |-> PyNone]
    /\ codec_out = NotCoded

\* The class is not bound, no entity has a value for the declared field.
NoAttribute ==
    /\ field_id = None
    /\ instance_dict = [e \in Ent |-> NoValue]
    /\ obj_custom_fields = [e \in Ent |-> EmptyMap]
    /\ assigned = [e \in Ent |-> NoValue]
    /\ dumped = NotDumped

\* No client is constructed, no class is bound to a client.
NoClients ==
    /\ constructed = {}
    /\ _client = [m \in Classes |-> NoClient]
    /\ client_models = [c \in Clients |-> [k \in Kinds |-> ""]]
    /\ client_op = ClientOp("none", "", "")

\* The custom field objects of the caller are new: none has an id.
NoPostFields ==
    /\ metadata_id = [f \in Flds |-> None]
    /\ fields_resp = NoFieldsResp

\* The objects of the caller are new, or loaded without updated_at.
Init ==
    /\ Constructed /\ NoCall /\ NoFields /\ NoWire /\ NoPostFields /\ NoResolve /\ NoBinding /\ NoCodec
    /\ NoAttribute
    /\ NoClients
    /\ \A e \in Ent : updated_at[e] = None

\* The caller calls post_objects, once.
Call ==
    /\ ncalls = 0
    /\ \E add_or_update \in Lists(Ent), delete \in Lists(Ent),
          now \in Times \cup {None}, roe \in BOOLEAN :
           post_objects(add_or_update, delete, now, roe)

\* The loop of post_objects goes on with any of the classes left.
Loop == \E model \in Kinds : post_objects_model(model)

Next == Call \/ Loop

Spec == Init /\ [][Next]_vars

\* models.py 71-72: obj.save(), at the time now
save(obj) ==
    /\ ncalls < MaxCalls
    /\ \E now \in Times : post_objects(<<obj>>, <<>>, now, TRUE)

\* models.py 74-75: obj.delete(), at the time now
delete(obj) ==
    /\ ncalls < MaxCalls
    /\ \E now \in Times : post_objects(<<>>, <<obj>>, now, TRUE)

\* A caller that works through the methods of its objects, one call after the
\* other.
InitRetry == Init

Save == \E obj \in Ent : save(obj)

Delete == \E obj \in Ent : delete(obj)

NextRetry == Save \/ Delete \/ Loop

SpecRetry == InitRetry /\ [][NextRetry]_vars

\* A caller that updates companies it has loaded, with whatever updated_at.
InitUpdate ==
    /\ Constructed /\ NoCall /\ NoFields /\ NoWire /\ NoPostFields /\ NoResolve /\ NoBinding /\ NoCodec
    /\ NoAttribute
    /\ NoClients
    /\ cls = [e \in Ent |-> "company"]
    /\ \A e \in Ent : id[e] # None

Update ==
    /\ ncalls = 0
    /\ \E add_or_update \in Lists(Ent), now \in Times \cup {None}, roe \in BOOLEAN :
           post_objects(add_or_update, <<>>, now, roe)

NextUpdate == Update \/ Loop

SpecUpdate == InitUpdate /\ [][NextUpdate]_vars

\* A caller that works on the custom-fields containers of its two classes,
\* each class building its data class at its first use.
InitFields ==
    /\ Init
    /\ cls = [e \in Ent |-> "contact"]
    /\ \A e \in Ent : id[e] = None

DataCls == \E model \in Kinds, fields \in FieldSets : data_cls(model, fields)

GetItem == \E model \in Kinds, key \in Keys : getitem(model, key)

Contains == \E model \in Kinds, key \in Keys : contains(model, key)

SetItem == \E model \in Kinds, key \in Keys, item \in Values : setitem(model, key, item)

NextFields == DataCls \/ GetItem \/ Contains \/ SetItem

SpecFields == InitFields /\ [][NextFields]_vars


\* The normalization of lines 208-233 on every form of answer to a batch of
\* at most MaxItems adds.
InitNormalize ==
    /\ Constructed /\ NoCall /\ NoFields
    /\ cls = [e \in Ent |-> "contact"]
    /\ \A e \in Ent : id[e] = None
    /\ \E nadd \in 0..MaxItems :
          wire \in [raw : AllErrorsOnWire(nadd), nadd : {nadd}]
    /\ normalized = NotNormalized
    /\ NoPostFields /\ NoResolve /\ NoBinding /\ NoCodec
    /\ NoAttribute
    /\ NoClients

Normalize == normalize

NextNormalize == Normalize

SpecNormalize == InitNormalize /\ [][NextNormalize]_vars

\* A caller that creates and deletes custom fields of the account.
InitPostFields ==
    /\ Init
    /\ cls = [e \in Ent |-> "contact"]
    /\ \A e \in Ent : id[e] = None

PostCustomFields ==
    \E adding \in Lists(Flds), deleting \in Lists(Flds) : post_custom_fields(adding, deleting)

NextPostFields == PostCustomFields

SpecPostFields == InitPostFields /\ [][NextPostFields]_vars

\* The resolution of any declared field against any metadata of a kind.
InitResolve ==
    /\ Constructed /\ NoCall /\ NoFields /\ NoWire /\ NoPostFields
    /\ cls = [e \in Ent |-> "contact"]
    /\ \A e \in Ent : id[e] = None
    /\ descriptor \in Descriptors
    /\ custom_fields_meta \in MetaMaps
    /\ resolved = NotResolved
    /\ NoBinding /\ NoCodec
    /\ NoAttribute
    /\ NoClients

Resolve == resolve

NextResolve == Resolve

SpecResolve == InitResolve /\ [][NextResolve]_vars

\* A client just constructed, whose contact class declares any custom
\* fields; entities are dumped and loaded, the account info is refreshed and
\* models are bound again, in any order.
InitBinder ==
    /\ Constructed /\ NoCall /\ NoFields /\ NoWire /\ NoPostFields /\ NoResolve
    /\ cls = [e \in Ent |-> "contact"]
    /\ \A e \in Ent : id[e] = None
    /\ account_info = [cached |-> FALSE, fields |-> EmptyMap]
    /\ \E decl \in DeclaredFields :
          /\ declared = [k \in Kinds |-> IF k = "contact" THEN decl ELSE <<>>]
          /\ schema_fields = [k \in Kinds |-> IF k = "contact" THEN 1..Len(decl) ELSE {}]
    /\ properties = [k \in Kinds |-> EmptyMap]
    /\ bound = [k \in Kinds |-> Unbound]
    /\ binder_op = BinderOp("__init__", "", "none")
    /\ NoCodec
    /\ NoAttribute
    /\ NoClients

MaybeBind == \E kind \in Kinds, hook \in Hooks : _maybe_bind_custom_fields(kind, hook)

UpdateAccountInfo == update_account_info

BindModel == \E kind \in Kinds : bind_model(kind)

NextBinder == MaybeBind \/ UpdateAccountInfo \/ BindModel

SpecBinder == InitBinder /\ [][NextBinder]_vars

\* A field of any class, with any enums, and any value of its domain.
InitCodec ==
    /\ Constructed /\ NoCall /\ NoFields /\ NoWire /\ NoPostFields /\ NoResolve /\ NoBinding
    /\ NoAttribute
    /\ NoClients
    /\ cls = [e \in Ent |-> "contact"]
    /\ \A e \in Ent : id[e] = None
    /\ \E field_type \in CodecTypes :
       \E e \in (IF field_type \in EnumTypes THEN EnumMaps ELSE {NoEnums}) :
       \E val \in Domain(field_type, e) :
          codec_in = [field_type |-> field_type, enums |-> e, value |-> val]
    /\ codec_out = NotCoded

RoundTrip == round_trip

NextCodec == RoundTrip

SpecCodec == InitCodec /\ [][NextCodec]_vars

\* Entities of a class that declares one custom field: the attribute is
\* assigned and the entities are dumped, in any order.
InitAttribute ==
    /\ Init
    /\ cls = [e \in Ent |-> "contact"]
    /\ \A e \in Ent : id[e] = None

SetAttr == \E obj \in Ent, data \in AttrValues : setattr_my_field(obj, data)

Dump == \E obj \in Ent : dump(obj)

NextAttribute == SetAttr \/ Dump

SpecAttribute == InitAttribute /\ [][NextAttribute]_vars

\* A program that makes clients and binds models to them, in any order.
InitClients ==
    /\ Init
    /\ cls = [e \in Ent |-> "contact"]
    /\ \A e \in Ent : id[e] = None

Construct == \E client \in Clients : __init__(client)

BindModelName == \E client \in Clients, model_name \in Kinds : bind_model_of(client, model_name, TRUE)

BindModelClass == \E client \in Clients, model \in Classes : bind_model_of(client, model, FALSE)

NextClients == Construct \/ BindModelName \/ BindModelClass

SpecClients == InitClients /\ [][NextClients]_vars

\* ------------------------------------------------------------- claims
\* What the claims speak of, read from the state after a step of the loop:
\* the class of the last iteration and the batch its standard request carried.
last_add == add_or_update_map[resp.model].add

last_update == add_or_update_map[resp.model].update

last_delete == delete_left(resp.model)

last_batch == elements(last_add) \cup values(last_update) \cup values(last_delete)

\* len(resp.data) + sum(len(errors[k])) != len(add) + len(update) + len(delete),
\* for the last response
last_mismatch ==
    Len(resp.data) + Cardinality(DOMAIN resp.errors.add)
        + Cardinality(DOMAIN resp.errors.update) + Cardinality(DOMAIN resp.errors.delete)
    # Len(last_add) + Cardinality(DOMAIN last_update) + Cardinality(DOMAIN last_delete)

\* The entities whose delete the last iteration sent to the ajax endpoint.
last_ajax_deleted ==
    IF ajax_delete(resp.model) THEN values(delete_map[resp.model]) ELSE {}

\* C1 as stated: a batch whose items and errors do not add up to its size ends
\* in ClientError, and every entity of the batch has the id, updated_at and
\* meta it had before the post_objects call.
C1_unchanged_since_call ==
    (resp.called /\ last_mismatch) =>
        /\ raised = "ClientError"
        /\ \A e \in last_batch :
              /\ id[e] = before.id[e]
              /\ updated_at[e] = before.updated_at[e]
              /\ meta[e] = before.meta[e]

\* C1 amended: a batch whose items and errors do not add up to its size ends
\* in ClientError, and the iteration that sent it leaves the id and the
\* updated_at of every entity of the batch as they were when it began (the stamp
\* that post_objects put on the update entities before sending stays), and the
\* meta too, but for the entities the same iteration deleted through the ajax
\* endpoint, whose meta carries that request's outcome.
C1_unchanged_by_post_objects ==
    [][(pc = "loop" /\ resp'.called /\ last_mismatch')
        => /\ raised' = "ClientError"
           /\ \A e \in last_batch' :
                 /\ id'[e] = id[e]
                 /\ updated_at'[e] = updated_at[e]
                 /\ e \notin last_ajax_deleted' => meta'[e] = meta[e]]_vars

\* C1 witness: a ClientError on a batch that had items to apply, one of its
\* update entities keeping the stamp of the call.
C1_witness ==
    /\ raised = "ClientError" /\ resp.called /\ last_mismatch
    /\ resp.data # <<>>
    /\ \E e \in values(last_update) : updated_at[e] # before.updated_at[e]


\* The request indexes of the last batch's adds that have no error, in order.
last_added_idxs == sorted((0..(Len(last_add) - 1)) \ DOMAIN resp.errors.add)

\* _post_objects returned: the requests were answered and reconciled.
last_returned == resp.called /\ raised \in {"none", "PostError"}

\* C2: after _post_objects returns normally, the k-th returned item that has
\* no updated_at has given its id to the k-th add entity, in submission order,
\* whose request index has no add error (for as many of them as there are),
\* and an add entity whose index has no add error has no error in its meta; so
\* add=[A,B] with two items and no errors gives each its item's id and no error.
C2_kth_item_to_kth_add ==
    last_returned =>
        LET new == SelectSeq(resp.data, LAMBDA item : item.updated_at = None)
        IN /\ \A k \in 1..Min(Len(new), Len(last_added_idxs)) :
                 id[last_add[last_added_idxs[k] + 1]] = new[k].id
           /\ \A k \in 1..Len(last_added_idxs) :
                 meta[last_add[last_added_idxs[k] + 1]] = NoError

\* C2 witness: add=[A,B], two items with different ids, no errors.
C2_witness ==
    /\ last_returned
    /\ last_add = <<"A", "B">>
    /\ Len(resp.data) = 2 /\ resp.data[1].id # resp.data[2].id
    /\ count_errors(resp.errors) = 0
    /\ id["A"] = resp.data[1].id /\ id["B"] = resp.data[2].id
    /\ meta["A"] = NoError /\ meta["B"] = NoError

\* The add errors of the last response came as a list whose length differs
\* from the number of adds: every add has the synthesized error.
last_add_errors_mismatched ==
    /\ resp.called
    /\ last_add # <<>>
    /\ DOMAIN resp.errors.add = 0..(Len(last_add) - 1)
    /\ \A i \in DOMAIN resp.errors.add : resp.errors.add[i] = MaybeNotAdded

\* C3 as stated: when the add errors arrive as a list whose length differs
\* from the number of adds, every add entity has an error in its meta after the
\* call, whatever items the response returns.
C3_every_add_has_error ==
    last_add_errors_mismatched => \A e \in elements(last_add) : meta[e] # NoError

\* C5 as stated: when a call with raise_on_errors has ended and some entity
\* carries an error of it in its meta, the call has raised PostError and the
\* PostError carries that entity among its failed objects.
C5_post_error_raised ==
    (pc = "idle" /\ ncalls > 0 /\ raise_on_errors
     /\ \E e \in Ent : meta[e] # before.meta[e] /\ meta[e] # NoError)
        => /\ raised = "PostError"
           /\ \A e \in Ent : (meta[e] # before.meta[e] /\ meta[e] # NoError)
                 => e \in failed.add \cup failed.update \cup failed.delete


\* The updated_at values the last response echoed for the update entity e, in
\* the order of the items: the items past those the adds took that carry
\* e's id and an updated_at.
last_echoes(e) ==
    LET rest == SubSeq(resp.data, Len(last_added_idxs) + 1, Len(resp.data))
        mine == SelectSeq(rest, LAMBDA item : item.id = id[e] /\ item.updated_at # None)
    IN [k \in 1..Len(mine) |-> mine[k].updated_at]

\* C6 as stated: when the reconciliation of a batch completes for an update
\* entity that had a local updated_at T0 and the server echoed once, with a
\* T1 different from T0, the entity has updated_at T1 and a warning was logged.
C6_warning_whenever_different ==
    [][(pc = "loop" /\ last_returned')
        => \A e \in values(last_update') :
              (updated_at[e] # None /\ Len(last_echoes(e)') = 1
               /\ last_echoes(e)'[1] # updated_at[e])
                  => updated_at'[e] = last_echoes(e)'[1] /\ e \in warned']_vars

\* C6 amended: when the reconciliation of a batch completes (no exception but
\* possibly the PostError of raise_on_errors) for an update entity the server
\* echoed, the entity has the updated_at of its last echo, and the
\* 'updated_at mismatch' warning was logged for it exactly when its local
\* updated_at was set and, cut to the whole second, differed from the first
\* echo, or two successive echoes differed: a local value that differs from the
\* echo only by its sub-second part is overwritten without a warning.
C6_overwritten_and_warned_by_second ==
    [][(pc = "loop" /\ last_returned')
        => \A e \in values(last_update') :
              LET echoes == last_echoes(e)'
                  T0 == updated_at[e]
              IN echoes # <<>> =>
                    /\ updated_at'[e] = echoes[Len(echoes)]
                    /\ e \in warned' <=>
                          \/ T0 # None /\ (T0 \div 2) * 2 # echoes[1]
                          \/ \E k \in 1..(Len(echoes) - 1) : echoes[k] # echoes[k + 1]]_vars

\* C6 witness: an update entity whose local updated_at differed from the echo
\* by more than its sub-second part now has the echoed value, warned, the call
\* having returned.
C6_witness ==
    /\ last_returned /\ raised = "none"
    /\ \E e \in values(last_update) :
          /\ e \in warned
          /\ last_echoes(e) # <<>>
          /\ updated_at[e] = last_echoes(e)[1]
          /\ before.updated_at[e] # None

\* C7: an entity's id changes from None only in a step of the loop whose
\* standard request was answered, and only if the entity is an add of that
\* batch at a request index that has no add error: an add entity whose index
\* is in the normalized add-error mapping keeps id None through that batch.
C7_id_only_by_successful_add ==
    [][\A e \in Ent :
          id'[e] # id[e]
             => /\ id[e] = None
                /\ pc = "loop" /\ resp'.called
                /\ \E i \in 0..(Len(last_add') - 1) :
                      /\ last_add'[i + 1] = e
                      /\ i \notin DOMAIN resp'.errors.add]_vars

\* C7 witness: of two adds of one batch, the one with an add error has its error
\* and no id, the other has the id of the item.
C7_witness ==
    /\ last_returned
    /\ \E i \in DOMAIN resp.errors.add, j \in 0..(Len(last_add) - 1) :
          /\ i < Len(last_add)
          /\ id[last_add[i + 1]] = None
          /\ meta[last_add[i + 1]] # NoError
          /\ j \notin DOMAIN resp.errors.add
          /\ id[last_add[j + 1]] # None

\* The classes of the call in progress, and the requests it sent for a class.
called_models ==
    {k \in Kinds : add_or_update_map[k] # NoBatch \/ delete_map[k] # EmptyMap}

requests_of(k, endpoint) ==
    {i \in DOMAIN requests : requests[i].model = k /\ requests[i].endpoint = endpoint}

\* C9 as stated: a call that returned has sent exactly one request for every
\* class among its arguments, and no request carries entities of two classes.
C9_one_request_per_kind ==
    /\ (pc = "idle" /\ ncalls > 0 /\ raised = "none")
          => \A k \in called_models :
                Cardinality({i \in DOMAIN requests : requests[i].model = k}) = 1
    /\ \A i \in DOMAIN requests : \A o \in requests[i].objs : cls[o] = requests[i].model

\* C9 amended: no request carries entities of two classes and no class gets a
\* second request to the same endpoint; a call that returned has sent, for every
\* class among its arguments, one request to the ajax delete endpoint if the
\* class is contact or lead and has deletes, carrying those deletes, and one
\* standard request if the class has adds, updates or deletes that did not go
\* to the ajax endpoint, the ajax one first: a contact or lead class that has
\* deletes and adds or updates gets two requests.  A call that an exception
\* ends has sent nothing for the classes it had not reached.
C9_requests_per_kind ==
    /\ \A i \in DOMAIN requests :
          /\ \A o \in requests[i].objs : cls[o] = requests[i].model
          /\ requests[i].model \in called_models
          /\ \A j \in DOMAIN requests :
                (requests[j].model = requests[i].model) =>
                    \/ i = j
                    \/ i < j /\ requests[i].endpoint = "ajax" /\ requests[j].endpoint = "post"
                    \/ j < i /\ requests[j].endpoint = "ajax" /\ requests[i].endpoint = "post"
    /\ (pc = "idle" /\ ncalls > 0 /\ raised = "none")
          => \A k \in called_models :
                LET by_ajax == k \in model_names_ajax_delete /\ delete_map[k] # EmptyMap
                    standard == \/ add_or_update_map[k] # NoBatch
                                \/ delete_map[k] # EmptyMap /\ ~by_ajax
                IN /\ Cardinality(requests_of(k, "ajax")) = (IF by_ajax THEN 1 ELSE 0)
                   /\ Cardinality(requests_of(k, "post")) = (IF standard THEN 1 ELSE 0)
                   /\ \A i \in requests_of(k, "ajax") :
                         requests[i].objs = values(delete_map[k])
                   /\ \A i \in requests_of(k, "post") :
                         requests[i].objs
                            = elements(add_or_update_map[k].add)
                              \cup values(add_or_update_map[k].update)
                              \cup (IF by_ajax THEN {} ELSE values(delete_map[k]))

\* C9 witness: a call that returned, on a contact to update and to delete and
\* on a company: two requests for the one class, one for the other.
C9_witness ==
    /\ pc = "idle" /\ ncalls > 0 /\ raised = "none"
    /\ called_models = Kinds
    /\ Cardinality(requests_of("contact", "ajax")) = 1
    /\ Cardinality(requests_of("contact", "post")) = 1
    /\ Cardinality(requests_of("company", "post")) = 1


\* C4: when the reconciliation of a batch completes for an update entity that
\* carried an error in its meta from an earlier batch, and its id has no update
\* error in this batch (nor, if the batch also deletes it, a delete error), the
\* entity has no error in its meta afterwards; and save() on an entity that
\* carries an error is accepted: it is grouped and goes on to be sent.
C4_stale_error_cleared ==
    [][/\ (pc = "loop" /\ last_returned')
            => \A e \in values(last_update') :
                  (/\ meta[e] # NoError
                   /\ id[e] \notin DOMAIN resp'.errors.update
                   /\ \A k \in DOMAIN last_delete' \cap DOMAIN resp'.errors.delete :
                         last_delete'[k] # e)
                      => meta'[e] = NoError
       /\ \A e \in Ent :
             (meta[e] # NoError /\ save(e))
                => /\ raised' = "none" /\ pc' = "loop"
                   /\ e \in batch_objects(add_or_update_map'[cls[e]], EmptyMap)]_vars

\* C4 witness: the second call, a save that returned, left without an error an
\* update entity that had one from the first call.
C4_witness ==
    /\ ncalls = 2 /\ last_returned /\ raised = "none"
    /\ \E e \in values(last_update) :
          /\ before.meta[e] # NoError
          /\ before.id[e] # None
          /\ meta[e] = NoError

\* C8 as stated: no save() or delete() on an entity that was deleted
\* successfully is accepted: the call raises before it sends anything.
C8_deleted_is_terminal ==
    [][\A e \in deleted :
          (save(e) \/ delete(e)) => raised' # "none" /\ pc' = "idle"]_vars

\* C8 amended: the client keeps no Deleted state.  An entity that was deleted
\* successfully keeps its id, and a later save() or delete() on it is accepted
\* as that of any entity that has an id: post_objects raises nothing, groups it
\* as an update or a delete of that id and goes on to send it.
C8_deleted_keeps_id_and_is_accepted ==
    [][\A e \in deleted :
          /\ id[e] # None /\ id'[e] = id[e]
          /\ (save(e) \/ delete(e))
                => /\ raised' = "none" /\ pc' = "loop"
                   /\ e \in batch_objects(add_or_update_map'[cls[e]], delete_map'[cls[e]])]_vars

\* C8 witness: the second call, a save that returned, has sent as an update an
\* entity that the first call deleted.
C8_witness ==
    /\ ncalls = 2 /\ last_returned /\ raised = "none"
    /\ \E e \in deleted :
          /\ e \in values(last_update)
          /\ delete_map[cls[e]] = EmptyMap
          /\ \E i \in DOMAIN requests : e \in requests[i].objs


\* C10 as stated: an operation on the container of a class fails with the
\* error of a name bound to several fields when its key is a name that two or
\* more fields of the class have, with the error of an unknown field name
\* when its key is a name that no field of the class has, and with an error
\* (that one or the KeyError of the dict) when its key is an id that no field
\* of the class has.
C10_ambiguous_and_unknown_keys_fail ==
    result.op # "none" =>
        LET fields == custom_fields[result.model].fields
            key == result.key
            owners == {i \in DOMAIN fields : fields[i] = key.name}
        IN /\ (key.str /\ Cardinality(owners) >= 2) => result.exc = MultipleFields
           /\ (key.str /\ owners = {}) => result.exc = UnknownFieldName
           /\ (~key.str /\ key.id \notin DOMAIN fields)
                 => result.exc \in {UnknownFieldName, "KeyError"}

\* C17: adding an entity through post_objects assigns its id and leaves its
\* updated_at unset: no step, neither the stamping of the call nor the
\* reconciliation of an answer, gives an updated_at to an entity that has no
\* id when the step begins.  (No statement of post_objects or _post_objects
\* assigns created_at.)
C17_add_leaves_updated_at_unset ==
    [][\A e \in Ent : id[e] = None => updated_at'[e] = None]_vars

\* C17 witness: a call that stamped the update entity B and added A; A has
\* the id of its item and still no updated_at.
C17_witness ==
    /\ last_returned
    /\ last_add = <<"A">> /\ before.id["A"] = None /\ id["A"] # None
    /\ updated_at["A"] = None
    /\ "B" \in values(last_update) /\ updated_at["B"] # None

\* C18 as stated: whatever the order of the returned items, a batch that
\* passes the count check and whose items with updated_at all name update
\* entities is reconciled, and every such item has set the updated_at of the
\* update entity that has its id (the last item of an id wins).
C18_update_items_attributed_wherever ==
    (/\ resp.called /\ ~last_mismatch
     /\ \A k \in 1..Len(resp.data) :
           resp.data[k].updated_at # None => resp.data[k].id \in DOMAIN last_update)
    => /\ raised \in {"none", "PostError"}
       /\ \A k \in 1..Len(resp.data) :
             (/\ resp.data[k].updated_at # None
              /\ \A j \in (k + 1)..Len(resp.data) :
                    resp.data[j].updated_at = None \/ resp.data[j].id # resp.data[k].id)
             => updated_at[last_update[resp.data[k].id]] = resp.data[k].updated_at

\* C19 as stated: after a batch that returns normally, every entity whose
\* index or id has a message in the normalized errors of the action it was
\* submitted under carries that message in its meta, whatever the outcome of
\* the other actions the batch holds for the same entity.
C19_error_kept_per_action ==
    last_returned =>
        /\ \A i \in DOMAIN resp.errors.add \cap (0..(Len(last_add) - 1)) :
              meta[last_add[i + 1]] = resp.errors.add[i]
        /\ \A k \in DOMAIN resp.errors.update \cap DOMAIN last_update :
              meta[last_update[k]] = resp.errors.update[k]
        /\ \A k \in DOMAIN resp.errors.delete \cap DOMAIN last_delete :
              meta[last_delete[k]] = resp.errors.delete[k]

\* The add errors as the answer in wire carries them: under '0' if the dict
\* has that key, else under 'add'; as the first element of a list, where an
\* empty first element stands for none.
wire_add ==
    IF wire.raw.shape = "list"
    THEN (IF truthy(wire.raw.add) THEN wire.raw.add ELSE AddErrAbsent)
    ELSE IF wire.raw.shape = "dict" /\ "0" \in wire.raw.keys THEN wire.raw.zero
    ELSE IF wire.raw.shape = "dict" /\ "add" \in wire.raw.keys THEN wire.raw.add
    ELSE AddErrAbsent

\* C20: whatever the form of the answer's errors (absent, a list, a dict with
\* any of its keys missing) and of its add errors (a dict keyed by request
\* index, a list, absent), the normalized error map has update and delete
\* errors exactly when the answer has them under their keys, empty otherwise,
\* and its add errors are one mapping from request index to message: that of
\* the answer when it is keyed by index, the i-th message for the index i when
\* it is a list as long as the adds, the synthesized message for every add
\* when it is a list of another length, and empty when there are none.
C20_normalized_for_every_shape ==
    normalized.done =>
        LET n == normalized.errors
            keyed(k) == wire.raw.shape = "dict" /\ k \in wire.raw.keys
        IN /\ DOMAIN n = {"add", "update", "delete"}
           /\ n.update = (IF keyed("update") THEN wire.raw.update ELSE EmptyMap)
           /\ n.delete = (IF keyed("delete") THEN wire.raw.delete ELSE EmptyMap)
           /\ DOMAIN n.add \subseteq Nat
           /\ \A i \in DOMAIN n.add : n.add[i] \in Msgs \cup {MaybeNotAdded}
           /\ wire_add.form = "absent" => n.add = EmptyMap
           /\ wire_add.form = "dict" => n.add = wire_add.d
           /\ (wire_add.form = "list" /\ Len(wire_add.l) = wire.nadd) =>
                 /\ DOMAIN n.add = 0..(wire.nadd - 1)
                 /\ \A i \in DOMAIN n.add : n.add[i] = wire_add.l[i + 1]
           /\ (wire_add.form = "list" /\ Len(wire_add.l) # wire.nadd) =>
                 /\ DOMAIN n.add = 0..(wire.nadd - 1)
                 /\ \A i \in DOMAIN n.add : n.add[i] = MaybeNotAdded

\* C20 witness: a dict answer without 'update' whose add errors are a list as
\* long as the two adds, normalized to the mapping of 0 and 1.
C20_witness ==
    /\ normalized.done
    /\ wire.raw.shape = "dict" /\ wire.raw.keys = {"add", "delete"}
    /\ wire.nadd = 2 /\ wire_add.form = "list" /\ Len(wire_add.l) = 2
    /\ DOMAIN normalized.errors.add = {0, 1}
    /\ normalized.errors.update = EmptyMap /\ normalized.errors.delete # EmptyMap

\* C16: a post_custom_fields call whose answer has as many items as the call
\* has fields to add returns, and the i-th added field (the fields of a call
\* being distinct objects) has as metadata id the id of the i-th item, for
\* every i; a call whose answer has another number of items raises ClientError
\* and leaves the metadata id of every added field as it was.
C16_ith_field_gets_ith_id ==
    [][(fields_resp'.called /\ fields_resp'.status = "ok") =>
          LET r == fields_resp'
          IN /\ Len(r.data) = Len(r.add) =>
                   /\ r.exc = "none"
                   /\ \A i \in 1..Len(r.add) : metadata_id'[r.add[i]] = r.data[i]
             /\ Len(r.data) # Len(r.add) =>
                   /\ r.exc = "ClientError"
                   /\ \A i \in 1..Len(r.add) : metadata_id'[r.add[i]] = metadata_id[r.add[i]]
      ]_vars

\* C16 witness: two fields added and given the two different ids of the
\* answer, in order.
C16_witness ==
    /\ fields_resp.called /\ fields_resp.exc = "none"
    /\ fields_resp.add = <<"f2", "f1">>
    /\ fields_resp.data[1] # fields_resp.data[2]
    /\ metadata_id["f2"] = fields_resp.data[1] /\ metadata_id["f1"] = fields_resp.data[2]

\* The records of custom_fields_meta that have the binding key of descriptor,
\* its code or its name, whatever their type.
same_key ==
    {i \in DOMAIN custom_fields_meta :
        IF descriptor.code # ""
        THEN custom_fields_meta[i].code = descriptor.code
        ELSE custom_fields_meta[i].name = descriptor.name}

\* C13: a field bound by code or by name is resolved only when exactly one
\* record of the metadata has that code or name: with no such record and with
\* more than one the bind fails (RuntimeError 'bind by ... failed', with the
\* number matched), whatever the types of the records, so that two records
\* named "Position" of types TEXT and NUMERIC make a TEXT field bound by that
\* name fail; with exactly one the bind gives its id if it has the field's
\* type and fails on the type otherwise.
C13_exactly_one_match_before_type ==
    (resolved.done /\ bind_attr(descriptor) \in {"code", "name"}) =>
        /\ Cardinality(same_key) # 1 =>
              resolved.exc = BindByFailed /\ resolved.matched = Cardinality(same_key)
        /\ Cardinality(same_key) = 1 =>
              \A i \in same_key :
                 IF custom_fields_meta[i].field_type = descriptor.field_type
                 THEN resolved.exc = "none" /\ resolved.id = i
                 ELSE resolved.exc = TypeMismatch
        /\ resolved.exc = "none" => Cardinality(same_key) = 1

\* C13 witness: a TEXT field bound by the name "Position", two records of
\* that name of which record 1 is TEXT and record 2 NUMERIC; the bind failed
\* with two records matched.
C13_witness ==
    /\ resolved.done /\ resolved.exc = BindByFailed /\ resolved.matched = 2
    /\ descriptor = [id |-> None, code |-> "", name |-> "Position", field_type |-> "TEXT"]
    /\ DOMAIN custom_fields_meta = {1, 2}
    /\ custom_fields_meta[1].name = "Position" /\ custom_fields_meta[1].field_type = "TEXT"
    /\ custom_fields_meta[2].name = "Position" /\ custom_fields_meta[2].field_type = "NUMERIC"

\* C11 as stated: a dump or load of a class that ends without exception
\* leaves the class bound against the account info the client holds, also
\* when update_account_info has replaced it since the class was bound.
C11_rebound_after_refresh ==
    (binder_op.op \in Hooks /\ binder_op.exc = "none") =>
        /\ bound[binder_op.kind].done
        /\ bound[binder_op.kind].fields = account_info.fields

\* C12: the custom fields of a class are bound by a dump or a load of that
\* class and by nothing else: the account info is first fetched by such a hook
\* or by update_account_info, never by the construction of the client or by
\* bind_model; the first hook of a class that ends without exception binds the
\* class against the account info; and once a class is bound no later hook
\* changes its binding, its schema or its properties (refresh or not).
C12_bound_at_first_use_only ==
    [][/\ (~account_info.cached /\ account_info'.cached) =>
              binder_op'.op \in Hooks \cup {"update_account_info"}
       /\ \A k \in Kinds :
             /\ (\/ bound'[k] # bound[k]
                 \/ schema_fields'[k] # schema_fields[k]
                 \/ properties'[k] # properties[k]) =>
                    ~bound[k].done /\ binder_op'.op \in Hooks /\ binder_op'.kind = k
             /\ (/\ ~bound[k].done
                 /\ binder_op' \in {BinderOp(hook, k, "none") : hook \in Hooks}) =>
                    /\ bound'[k].done
                    /\ account_info'.cached
                    /\ bound'[k].fields = account_info'.fields
      ]_vars

\* C12 witness: the contact class, which declares a field, is bound by a load
\* and has its property, while the company class, never dumped or loaded, is
\* not bound.
C12_witness ==
    /\ binder_op = BinderOp("pre_load", "contact", "none")
    /\ bound["contact"].done /\ bound["contact"].fields = account_info.fields
    /\ properties["contact"] # EmptyMap
    /\ ~bound["company"].done

\* C14 as stated: after a dump or load of a class that raised because a
\* declared field could not be resolved, the class is entirely unbound: no
\* property is set on it and every declared field is still in schema.fields.
C14_failed_bind_leaves_class_unbound ==
    (binder_op.op \in Hooks /\ binder_op.exc \in {BindByFailed, MustBeBinded, TypeMismatch}) =>
        /\ ~bound[binder_op.kind].done
        /\ properties[binder_op.kind] = EmptyMap
        /\ schema_fields[binder_op.kind] = 1..Len(declared[binder_op.kind])

\* Python's == between two values: a dict and a MultiDict with the same items
\* are equal, values of other different types are not.
py_eq(a, b) ==
    /\ \/ a.type = b.type
       \/ {a.type, b.type} = {"dict", "MultiDict"}
    /\ a.v = b.v

\* C15 as stated: for a field of every class and every value of the class's
\* domain, _deserialize of what _serialize gives for the value returns, and
\* returns a value equal to it.
C15_decode_of_encode_is_value ==
    codec_out.done => codec_out.exc = "none" /\ py_eq(codec_out.value, codec_in.value)

\* C21 as stated: the id-to-name and name-to-ids tables that the containers
\* of a class use are those derived from the custom fields the class was
\* bound with, whatever data classes were built after its own.
C21_tables_are_those_of_the_class ==
    \A k \in Kinds :
        custom_fields[k].built =>
            /\ _id_name_map = id_name_map(custom_fields[k].fields)
            /\ _name_ids_map = name_ids_map(custom_fields[k].fields)

\* C22 as stated: a bind of a class that succeeds leaves a descriptor for
\* exactly the ids of the account's metadata of the kind, and no id is bound
\* to two declared fields of the class.
C22_descriptors_cover_metadata_once ==
    [][\A k \in Kinds :
          (~bound[k].done /\ bound'[k].done) =>
              /\ DOMAIN bound'[k].fields = DOMAIN account_info'.fields
              /\ \A i, j \in DOMAIN properties'[k] :
                    properties'[k][i] = properties'[k][j] => i = j]_vars

\* C23 as stated: whatever assignments to the attribute of a declared custom
\* field came before, with the class bound or not, a dump of the entity
\* serializes under the id of the field the value last assigned to the
\* attribute.
C23_dump_emits_last_assigned ==
    (dumped.done /\ assigned[dumped.obj] # NoValue) =>
        /\ field_id \in DOMAIN dumped.value
        /\ dumped.value[field_id] = assigned[dumped.obj]

C25_models_of_clients_independent ==
    [][\A c \in constructed : \A k \in Kinds :
          (/\ client_models[c][k] # ""
           /\ _client[client_models[c][k]] = c
           /\ client_op'.client # c)
              => _client'[client_models[c][k]] = c]_vars

\* C26 as stated: when a call of post_objects ends with the PostError or the
\* ClientError of one class, the batch of every class of the call has been
\* submitted all the same.
C26_every_kind_submitted ==
    (pc = "idle" /\ raised \in {"PostError", "ClientError"})
        => \A k \in called_models : \E i \in DOMAIN requests : requests[i].model = k

\* C27: the stamping of a post_objects call never moves an updated_at
\* backwards.  Over the step that groups the arguments: no entity's
\* updated_at decreases, and an entity whose updated_at is later than the
\* stamp (the value another entity was changed to) keeps its value.
C27_stamp_never_backwards ==
    [][ncalls' # ncalls =>
          \A e \in Ent :
             /\ updated_at'[e] >= updated_at[e]
             /\ \A f \in Ent :
                   (updated_at'[f] # updated_at[f] /\ updated_at[e] > updated_at'[f])
                      => updated_at'[e] = updated_at[e]]_vars

\* C27 witness: a call has stamped B and left A, an update of the same call
\* that had a later updated_at, as it was.
C27_witness ==
    /\ ncalls = 1 /\ pc = "loop" /\ requests = <<>>
    /\ {"A", "B"} \subseteq values(add_or_update_map["company"].update)
    /\ updated_at["B"] # before.updated_at["B"]
    /\ before.updated_at["A"] > updated_at["B"]
    /\ updated_at["A"] = before.updated_at["A"]

====
